---- MODULE Spec2Model ----
(***************************************************************************)
(* A model of discoverx.sql_builder.SqlBuilder: the scan-query builder     *)
(* (rule_matching_sql, get_table_list_sql) and the M-SQL tag-expansion     *)
(* compiler (compile_msql).                                                *)
(*                                                                         *)
(* A Python str is a sequence of atoms.  An atom is a TLA+ string that     *)
(* stands for an unbreakable piece of text: one character wherever the     *)
(* code looks at characters ("[", "]", "*", a backslash, a newline, a      *)
(* blank), and a whole chunk for literal text of an f-string or for a name *)
(* that is only interpolated.  Indentation of the f-string literals is     *)
(* kept in units of four blanks (the atom "    ").                         *)
(***************************************************************************)
EXTENDS Integers, Sequences, FiniteSets, TLC

VARIABLES
    msql,             \* compile_msql: the M-SQL template
    table_info,       \* compile_msql, rule_matching_sql: the TableInfo
    rules,            \* rule_matching_sql: the list of Rule
    sample_size,      \* rule_matching_sql: the sample size
    catalog_filter,   \* get_table_list_sql
    database_filter,  \* get_table_list_sql
    table_filter,     \* get_table_list_sql
    calls,            \* number of calls made so far on these inputs
    tags,             \* compile_msql: the local list(set(re.findall(...)))
    sql_statements,   \* compile_msql: the local list of expanded statements
    result,           \* outcome of the last call
    previous          \* outcome of the call before the last one

vars == <<msql, table_info, rules, sample_size, catalog_filter,
          database_filter, table_filter, calls, tags, sql_statements,
          result, previous>>

-----------------------------------------------------------------------------
(* Bounds *)

MaxPieces == 4
MaxCols == 2
MaxRules == 2
MaxFilterLen == 2

-----------------------------------------------------------------------------
(* Generic helpers *)

SeqsUpTo(S, n) == UNION {[1..k -> S] : k \in 0..n}

RECURSIVE Flatten(_)
Flatten(ss) == IF ss = <<>> THEN <<>> ELSE Head(ss) \o Flatten(Tail(ss))

Range(s) == {s[i] : i \in 1..Len(s)}

Orderings(S) == {o \in [1..Cardinality(S) -> S] : Range(o) = S}

None == <<>>
Some(v) == <<v>>

NoResult == [status |-> "none", value |-> <<>>]
Returned(v) == [status |-> "returned", value |-> v]
Raised(message) == [status |-> "raised", value |-> message]

-----------------------------------------------------------------------------
(* Python built-ins *)

\* str.replace(old, new) for a non-empty old: leftmost, non-overlapping
RECURSIVE replace(_, _, _)
replace(s, old, new) ==
    IF Len(s) < Len(old) THEN s
    ELSE IF SubSeq(s, 1, Len(old)) = old
         THEN new \o replace(SubSeq(s, Len(old) + 1, Len(s)), old, new)
         ELSE <<Head(s)>> \o replace(Tail(s), old, new)

\* sep.join(list)
RECURSIVE join(_, _)
join(sep, list) ==
    IF list = <<>> THEN <<>>
    ELSE IF Len(list) = 1 THEN list[1]
    ELSE list[1] \o sep \o join(sep, Tail(list))

\* list(itertools.product(*x)): the rightmost list advances fastest
RECURSIVE product_noEmptyTuple(_)
product_noEmptyTuple(x) ==
    IF x = <<>> THEN <<>>
    ELSE IF Len(x) = 1 THEN [i \in 1..Len(x[1]) |-> <<x[1][i]>>]
    ELSE LET rest == product_noEmptyTuple(Tail(x))
         IN  Flatten([i \in 1..Len(x[1]) |->
                        [j \in 1..Len(rest) |-> <<x[1][i]>> \o rest[j]]])

RECURSIVE product(_)
product(x) ==
    IF x = <<>> THEN << <<>> >>
    ELSE LET rest == product(Tail(x))
         IN  Flatten([i \in 1..Len(x[1]) |->
                        [j \in 1..Len(rest) |-> <<x[1][i]>> \o rest[j]]])

-----------------------------------------------------------------------------
(* discoverx.common.helper.strip_margin: the common leading whitespace of  *)
(* the lines that are not blank is removed from every line.                *)

IsBlank(a) == a \in {" ", "    "}

\* the index of the first a in s at or after i, 0 when there is none
RECURSIVE index_of(_, _, _)
index_of(s, a, i) ==
    IF i > Len(s) THEN 0
    ELSE IF s[i] = a THEN i
    ELSE index_of(s, a, i + 1)

RECURSIVE split_lines(_)
split_lines(s) ==
    LET k == index_of(s, "\n", 1)
    IN  IF k = 0 THEN <<s>>
        ELSE <<SubSeq(s, 1, k - 1)>> \o split_lines(SubSeq(s, k + 1, Len(s)))

\* the number of blanks at the start of the line, counted from index i
RECURSIVE leading_from(_, _)
leading_from(line, i) ==
    IF i > Len(line) \/ ~IsBlank(line[i]) THEN i - 1
    ELSE leading_from(line, i + 1)

leading(line) == leading_from(line, 1)

\* the smallest indentation of the lines that are not blank; -1 if all are
RECURSIVE common_margin(_)
common_margin(lines) ==
    IF lines = <<>> THEN -1
    ELSE LET rest == common_margin(Tail(lines))
             n == leading(Head(lines))
         IN  IF n = Len(Head(lines)) THEN rest
             ELSE IF rest = -1 \/ n < rest THEN n
             ELSE rest

strip_margin(text) ==
    LET lines == split_lines(text)
        margin == common_margin(lines)
        cut(line) == LET n == leading(line)
                     IN  SubSeq(line, (IF n < margin THEN n ELSE margin) + 1,
                                Len(line))
    IN  IF margin <= 0 THEN text
        ELSE join(<<"\n">>, [i \in 1..Len(lines) |-> cut(lines[i])])

-----------------------------------------------------------------------------
(* discoverx.config.TableInfo *)

ColumnInfo(name, data_type, tag_set) ==
    [name |-> name, data_type |-> data_type, tags |-> tag_set]

TaggedColumn(name, tag) == [name |-> name, tag |-> tag]

\* TableInfo.get_columns_by_tag: the columns carrying the tag, in column order
RECURSIVE get_columns_by_tag(_, _)
get_columns_by_tag(columns, tag) ==
    IF columns = <<>> THEN <<>>
    ELSE (IF tag \in Head(columns).tags
          THEN <<TaggedColumn(Head(columns).name, tag)>> ELSE <<>>)
         \o get_columns_by_tag(Tail(columns), tag)

-----------------------------------------------------------------------------
(* SqlBuilder.compile_msql *)

\* the character class [\w_-] over the characters of the model
TagChars == {"a", "b", "c", "d", "x", "_", "-"}

\* length of the longest run of tag characters at the start of s
RECURSIVE run_length(_)
run_length(s) ==
    IF s # <<>> /\ Head(s) \in TagChars THEN 1 + run_length(Tail(s)) ELSE 0

\* re.findall(r"\[([\w_-]+)\]", s): the groups of the leftmost
\* non-overlapping matches, in order of occurrence
RECURSIVE re_findall_tags(_)
re_findall_tags(s) ==
    IF s = <<>> THEN <<>>
    ELSE LET n == run_length(Tail(s))
         IN  IF Head(s) = "[" /\ n >= 1 /\ Len(s) >= n + 2 /\ s[n + 2] = "]"
             THEN <<SubSeq(s, 2, n + 1)>>
                  \o re_findall_tags(SubSeq(s, n + 3, Len(s)))
             ELSE re_findall_tags(Tail(s))

\* the orders list(set(...)) can produce: set iteration order of str keys
\* follows the per-process randomised string hash
tag_lists_keepDuplicates(s) == {re_findall_tags(s)}

tag_lists(s) == Orderings(Range(re_findall_tags(s)))

_replace_tag(sql, tag, col_name) == replace(sql, <<"[">> \o tag \o <<"]">>, col_name)

\* the inner loop: for tagged_col in c: temp_sql = self._replace_tag(...)
RECURSIVE substitute(_, _)
substitute(temp_sql, c) ==
    IF c = <<>> THEN temp_sql
    ELSE substitute(_replace_tag(temp_sql, Head(c).tag, Head(c).name), Tail(c))

\* the statements compile_msql builds when the tag list comes out as tag_list
expand(template, info, tag_list) ==
    LET x == [i \in 1..Len(tag_list) |->
                 get_columns_by_tag(info.columns, tag_list[i])]
        combinations == product(x)
    IN  [i \in 1..Len(combinations) |-> substitute(template, combinations[i])]

UnionAll == <<"\n", "UNION ALL", "\n">>

final_sql(statements) == strip_margin(join(UnionAll, statements))

-----------------------------------------------------------------------------
(* Inputs of compile_msql *)

\* a template is a run of pieces: a placeholder, a stray bracket, or a line
\* break followed by a blank of indentation
Pieces == {<<"[", "a", "]">>, <<"[", "b", "]">>, <<"[">>, <<"]">>,
           <<"\n", " ">>}

Templates == {Flatten(ps) : ps \in SeqsUpTo(Pieces, MaxPieces)}

TagNames == {<<"a">>, <<"b">>}

ColumnNames == <<"b", "c", "d", "x">>

String == <<"s", "t", "r", "i", "n", "g">>

TaggedTables ==
    {[catalog |-> None, database |-> <<"db">>, table |-> <<"t">>,
      columns |-> [i \in 1..Len(ts) |->
                      ColumnInfo(<<ColumnNames[i]>>, String, ts[i])]] :
        ts \in SeqsUpTo((SUBSET TagNames) \ {{}}, MaxCols)}

-----------------------------------------------------------------------------
(* The M-SQL compiler: one call of compile_msql.                           *)

Init ==
    /\ msql \in Templates
    /\ table_info \in TaggedTables
    /\ rules = <<>>
    /\ sample_size = 1000
    /\ catalog_filter = <<"*">>
    /\ database_filter = <<"*">>
    /\ table_filter = <<"*">>
    /\ calls = 0
    /\ tags = <<>>
    /\ sql_statements = <<>>
    /\ result = NoResult
    /\ previous = NoResult

\* one run of compile_msql on the template and the table
run_compile_msql ==
    /\ \E tag_list \in tag_lists(msql) :
          /\ tags' = tag_list
          /\ sql_statements' = expand(msql, table_info, tag_list)
    /\ result' = Returned(final_sql(sql_statements'))
    /\ previous' = result
    /\ calls' = calls + 1
    /\ UNCHANGED <<msql, table_info, rules, sample_size, catalog_filter,
                   database_filter, table_filter>>

compile_msql == calls = 0 /\ run_compile_msql

Next == compile_msql

Spec == Init /\ [][Next]_vars

\* compile_msql called a second time on the same template and table
compile_msql_again == calls = 1 /\ run_compile_msql

RerunNext == compile_msql \/ compile_msql_again

RerunSpec == Init /\ [][RerunNext]_vars

-----------------------------------------------------------------------------
(* Properties of compile_msql *)

CountAtom(s, a) == Cardinality({i \in 1..Len(s) : s[i] = a})

DistinctTags == Range(re_findall_tags(msql))

\* number of columns of the table that carry the tag
Carrying(tag) ==
    Cardinality({i \in 1..Len(table_info.columns) :
                    tag \in table_info.columns[i].tags})

\* C1: with two distinct tags matched by m and n columns, compile_msql
\* returns m*n statements joined by UNION ALL, and none (without raising)
\* when m or n is 0.
C1_CartesianProduct ==
    (calls >= 1 /\ Cardinality(DistinctTags) = 2) =>
        LET t1 == CHOOSE t \in DistinctTags : TRUE
            t2 == CHOOSE t \in DistinctTags : t # t1
            count == Carrying(t1) * Carrying(t2)
        IN  /\ Len(sql_statements) = count
            /\ result.status = "returned"
            /\ CountAtom(result.value, "UNION ALL")
                   = (IF count = 0 THEN 0 ELSE count - 1)
            /\ (count = 0 => result.value = <<>>)

C1_Witness ==
    /\ calls >= 1
    /\ Cardinality(DistinctTags) = 2
    /\ \A t \in DistinctTags : Carrying(t) = 2
    /\ Len(sql_statements) = 4
    /\ CountAtom(result.value, "UNION ALL") = 3

\* C2: a template without placeholders compiles to exactly one statement,
\* the template itself, returned after margin normalisation.
C2_NoTagsIdentity ==
    (calls >= 1 /\ DistinctTags = {}) =>
        /\ sql_statements = <<msql>>
        /\ result = Returned(strip_margin(msql))

C2_Witness ==
    /\ calls >= 1
    /\ DistinctTags = {}
    /\ sql_statements = <<msql>>
    /\ result.value # msql

\* the template with every placeholder replaced, in one pass, by the column
\* name chosen for its tag; everything else is copied
RECURSIVE SubstituteAll(_, _)
SubstituteAll(template, chosen) ==
    IF template = <<>> THEN <<>>
    ELSE LET n == run_length(Tail(template))
         IN  IF /\ Head(template) = "["
                /\ n >= 1
                /\ Len(template) >= n + 2
                /\ template[n + 2] = "]"
                /\ SubSeq(template, 2, n + 1) \in DOMAIN chosen
             THEN chosen[SubSeq(template, 2, n + 1)]
                  \o SubstituteAll(SubSeq(template, n + 3, Len(template)), chosen)
             ELSE <<Head(template)>> \o SubstituteAll(Tail(template), chosen)

\* the combinations of one column per tag, in the order of the statements
Combinations ==
    product([i \in 1..Len(tags) |->
                get_columns_by_tag(table_info.columns, tags[i])])

Chosen(c) == [t \in Range(tags) |->
                 c[CHOOSE i \in 1..Len(tags) : tags[i] = t].name]

\* C3: every statement is the template with each placeholder replaced by the
\* column chosen for its tag, and nothing else altered.
C3_OnlyPlaceholdersReplaced ==
    calls >= 1 =>
        /\ Len(sql_statements) = Len(Combinations)
        /\ \A i \in 1..Len(sql_statements) :
               sql_statements[i] = SubstituteAll(msql, Chosen(Combinations[i]))

\* C4: calling compile_msql again on the same template and table returns
\* the same text.
C4_SameOutputOnRerun ==
    calls >= 2 => previous = result

-----------------------------------------------------------------------------
(* SqlBuilder.rule_matching_sql *)

\* discoverx.rules.RuleTypes.REGEX
REGEX == "regex"

Rule(name, type, definition) ==
    [name |-> name, type |-> type, definition |-> definition]

\* str.lower() over the letters of the model
LowerCase ==
    [c \in {"S", "T", "R", "I", "N", "G"} |->
        CASE c = "S" -> "s" [] c = "T" -> "t" [] c = "R" -> "r"
          [] c = "I" -> "i" [] c = "N" -> "n" [] c = "G" -> "g"]

lower(s) ==
    [i \in 1..Len(s) |-> IF s[i] \in DOMAIN LowerCase THEN LowerCase[s[i]] ELSE s[i]]

format_regex_unescaped(expression) == expression

format_regex(expression) == replace(expression, <<"\\">>, <<"\\", "\\">>)

expressions_unfiltered(rule_list) == rule_list

\* [r for r in rules if r.type == RuleTypes.REGEX]
RECURSIVE expressions(_)
expressions(rule_list) ==
    IF rule_list = <<>> THEN <<>>
    ELSE (IF Head(rule_list).type = REGEX THEN <<Head(rule_list)>> ELSE <<>>)
         \o expressions(Tail(rule_list))

is_string_type_caseSensitive(data_type) == data_type = String

\* c.data_type.lower() == "string"
is_string_type(data_type) == lower(data_type) = String

\* [c for c in columns if c.data_type.lower() == "string"]
RECURSIVE string_columns(_)
string_columns(columns) ==
    IF columns = <<>> THEN <<>>
    ELSE (IF is_string_type(Head(columns).data_type) THEN <<Head(columns)>>
          ELSE <<>>)
         \o string_columns(Tail(columns))

cols(info) == string_columns(info.columns)

\* str(table_info.catalog) as an f-string renders it
format_catalog(catalog) == IF catalog = None THEN <<"None">> ELSE catalog[1]

catalog_str_always(info) == format_catalog(info.catalog) \o <<".">>

catalog_str(info) ==
    IF info.catalog # None /\ info.catalog[1] # <<>>
    THEN info.catalog[1] \o <<".">>
    ELSE <<>>

matching_columns(rule_list) ==
    [i \in 1..Len(expressions(rule_list)) |->
        LET r == expressions(rule_list)[i]
        IN  <<"INT(regexp_like(value, ", "'">> \o format_regex(r.definition)
            \o <<"'", ")) AS ">> \o r.name]

Indent(n) == [i \in 1..n |-> "    "]

matching_string(rule_list) ==
    join(<<",", "\n">> \o Indent(5), matching_columns(rule_list))

\* the atom of the backquote character (a TLA+ string cannot hold one)
Backquote == "BACKQUOTE"

\* f"'{name}', `{name}`"
unpivot_pair(name) ==
    <<"'">> \o name \o <<"'", ", ", Backquote>> \o name \o <<Backquote>>

unpivot_expressions(rule_list) ==
    join(<<", ">>, [i \in 1..Len(expressions(rule_list)) |->
                      unpivot_pair(expressions(rule_list)[i].name)])

unpivot_columns(info) ==
    join(<<", ">>, [i \in 1..Len(cols(info)) |-> unpivot_pair(cols(info)[i].name)])

\* the f-string of rule_matching_sql, line by line
scan_sql(info, rule_list, size) ==
    join(<<"\n">>, <<
        <<>>,
        Indent(3) \o <<"SELECT ">>,
        Indent(4) \o <<"'">> \o format_catalog(info.catalog) \o <<"'", " as catalog,">>,
        Indent(4) \o <<"'">> \o info.database \o <<"'", " as database,">>,
        Indent(4) \o <<"'">> \o info.table \o <<"'", " as table, ">>,
        Indent(4) \o <<"column,">>,
        Indent(4) \o <<"rule_name,">>,
        Indent(4) \o <<"(sum(value) / count(value)) as frequency">>,
        Indent(3) \o <<"FROM">>,
        Indent(3) \o <<"(">>,
        Indent(4) \o <<"SELECT column, ", "stack(",
                       ToString(Len(expressions(rule_list))), ", ">>
                  \o unpivot_expressions(rule_list)
                  \o <<") as (rule_name, value)">>,
        Indent(4) \o <<"FROM ">>,
        Indent(4) \o <<"(">>,
        Indent(5) \o <<"SELECT">>,
        Indent(5) \o <<"column,">>,
        Indent(5) \o matching_string(rule_list),
        Indent(5) \o <<"FROM (">>,
        Indent(6) \o <<"SELECT">>,
        Indent(7) \o <<"stack(", ToString(Len(cols(info))), ", ">>
                  \o unpivot_columns(info) \o <<") AS (column, value)">>,
        Indent(6) \o <<"FROM ">> \o catalog_str(info) \o info.database
                  \o <<".">> \o info.table,
        Indent(6) \o <<"TABLESAMPLE (", ToString(size), " ROWS)">>,
        Indent(5) \o <<")">>,
        Indent(4) \o <<")">>,
        Indent(3) \o <<")">>,
        Indent(3) \o <<"GROUP BY catalog, database, table, column, rule_name">>,
        Indent(2) >>)

NoScannableColumns(info) ==
    <<"There are no columns of type string to be scanned in ">> \o info.table

NoApplicableRules == <<"There are no rules to scan for.">>

rule_matching_sql_rulesFirst(info, rule_list, size) ==
    IF expressions(rule_list) = <<>> THEN Raised(NoApplicableRules)
    ELSE IF cols(info) = <<>> THEN Raised(NoScannableColumns(info))
    ELSE Returned(strip_margin(scan_sql(info, rule_list, size)))

rule_matching_sql(info, rule_list, size) ==
    IF cols(info) = <<>> THEN Raised(NoScannableColumns(info))
    ELSE IF expressions(rule_list) = <<>> THEN Raised(NoApplicableRules)
    ELSE Returned(strip_margin(scan_sql(info, rule_list, size)))

-----------------------------------------------------------------------------
(* Inputs of rule_matching_sql *)

DataTypes == {String, <<"S", "T", "R", "I", "N", "G">>, <<"i", "n", "t">>}

Patterns == {<<"a">>, <<"\\", "d">>, <<"a", "\\", "\\">>}

RuleNames == <<"r1", "r2", "r3", "r4">>

RuleTypes == {REGEX, "other"}

Catalogs == {None, Some(<<>>), Some(<<"c">>)}

SampleSizes == {10, 1000}

TypedTables ==
    {[catalog |-> c, database |-> <<"db">>, table |-> <<"t">>,
      columns |-> [i \in 1..Len(ds) |->
                      ColumnInfo(<<ColumnNames[i]>>, ds[i], {})]] :
        c \in Catalogs, ds \in SeqsUpTo(DataTypes, MaxCols)}

RuleLists ==
    {[i \in 1..Len(rs) |-> Rule(<<RuleNames[i]>>, rs[i][1], rs[i][2])] :
        rs \in SeqsUpTo(RuleTypes \X Patterns, MaxRules)}

-----------------------------------------------------------------------------
(* The scan-query builder: one call of rule_matching_sql.                  *)

ScanInit ==
    /\ msql = <<>>
    /\ table_info \in TypedTables
    /\ rules \in RuleLists
    /\ sample_size \in SampleSizes
    /\ catalog_filter = <<"*">>
    /\ database_filter = <<"*">>
    /\ table_filter = <<"*">>
    /\ calls = 0
    /\ tags = <<>>
    /\ sql_statements = <<>>
    /\ result = NoResult
    /\ previous = NoResult

scan ==
    /\ calls = 0
    /\ result' = rule_matching_sql(table_info, rules, sample_size)
    /\ previous' = result
    /\ calls' = calls + 1
    /\ UNCHANGED <<msql, table_info, rules, sample_size, catalog_filter,
                   database_filter, table_filter, tags, sql_statements>>

ScanNext == scan

ScanSpec == ScanInit /\ [][ScanNext]_vars

-----------------------------------------------------------------------------
(* Properties of rule_matching_sql *)

\* the indices of the atoms of s equal to a, in increasing order
Positions(s, a) ==
    LET at == {i \in 1..Len(s) : s[i] = a}
    IN  [n \in 1..Cardinality(at) |->
            CHOOSE i \in at : Cardinality({j \in at : j < i}) = n - 1]

\* the first index after p of an atom of s that is in S
NextIn(s, p, S) ==
    CHOOSE q \in (p + 1)..Len(s) :
        s[q] \in S /\ \A j \in (p + 1)..(q - 1) : s[j] \notin S

UpperString == <<"S", "T", "R", "I", "N", "G">>

\* the columns whose data type is "string" up to the case of each letter
StringColumns ==
    {i \in 1..Len(table_info.columns) :
        LET d == table_info.columns[i].data_type
        IN  /\ Len(d) = Len(String)
            /\ \A k \in 1..Len(d) : d[k] \in {String[k], UpperString[k]}}

RegexRules == {i \in 1..Len(rules) : rules[i].type = REGEX}

\* the REGEX rules of the list, in the order of the list
OnlyRegex(rule_list) ==
    LET at == {i \in 1..Len(rule_list) : rule_list[i].type = REGEX}
    IN  [n \in 1..Cardinality(at) |->
            rule_list[CHOOSE i \in at : Cardinality({j \in at : j < i}) = n - 1]]

\* C5: on a table without a string column rule_matching_sql raises the
\* no-scannable-columns error, whatever the rules are.
C5_NoScannableColumns ==
    (calls = 1 /\ StringColumns = {}) =>
        result = Raised(NoScannableColumns(table_info))

C5_Witness ==
    /\ calls = 1
    /\ StringColumns = {}
    /\ Len(table_info.columns) >= 1
    /\ Len(rules) >= 1
    /\ RegexRules = {}
    /\ result.status = "raised"

\* C6 as stated: a rule set of non-REGEX rules only raises the
\* no-applicable-rules error, and non-REGEX rules next to a REGEX rule
\* cause no error.
C6_Original ==
    calls = 1 =>
        /\ (Len(rules) >= 1 /\ RegexRules = {}) =>
               result = Raised(NoApplicableRules)
        /\ (RegexRules # {} /\ Len(rules) > Cardinality(RegexRules)) =>
               result.status = "returned"

\* C6 (amended): on a table with at least one string column, a rule set of
\* non-REGEX rules only raises the no-applicable-rules error, and non-REGEX
\* rules next to a REGEX rule are ignored: the SQL returned is the SQL of
\* the REGEX rules alone.
C6_NoApplicableRules ==
    (calls = 1 /\ StringColumns # {}) =>
        /\ (Len(rules) >= 1 /\ RegexRules = {}) =>
               result = Raised(NoApplicableRules)
        /\ (RegexRules # {} /\ Len(rules) > Cardinality(RegexRules)) =>
               /\ result.status = "returned"
               /\ result = rule_matching_sql(table_info, OnlyRegex(rules),
                                             sample_size)
               /\ \A i \in 1..Len(rules) :
                      rules[i].type # REGEX =>
                          \A k \in 1..Len(result.value) :
                              result.value[k] # rules[i].name[1]

C6_Witness ==
    /\ calls = 1
    /\ StringColumns # {}
    /\ Len(rules) >= 1
    /\ RegexRules = {}
    /\ result = Raised(NoApplicableRules)

\* the pattern with each backslash written twice, character by character
Doubled(pattern) ==
    Flatten([i \in 1..Len(pattern) |->
                IF pattern[i] = "\\" THEN <<"\\", "\\">> ELSE <<pattern[i]>>])

\* the patterns the returned SQL passes to regexp_like, in order
EmbeddedPatterns ==
    LET v == result.value
        at == Positions(v, "INT(regexp_like(value, ")
    IN  [i \in 1..Len(at) |->
            SubSeq(v, at[i] + 2, NextIn(v, at[i] + 1, {"'"}) - 1)]

\* C7: the pattern embedded for each REGEX rule is the rule's definition
\* with every backslash doubled and every other character unaltered.
C7_BackslashesDoubled ==
    (calls = 1 /\ result.status = "returned") =>
        EmbeddedPatterns =
            [i \in 1..Len(OnlyRegex(rules)) |->
                Doubled(OnlyRegex(rules)[i].definition)]

C7_Witness ==
    /\ calls = 1
    /\ result.status = "returned"
    /\ \E i \in 1..Len(EmbeddedPatterns) :
          EmbeddedPatterns[i] = <<"a", "\\", "\\", "\\", "\\">>

StackClosers == {") as (rule_name, value)", ") AS (column, value)"}

\* the arguments of the stack( at index p of the returned SQL
StackArgs(p) ==
    SubSeq(result.value, p + 1, NextIn(result.value, p, StackClosers) - 1)

\* the atoms of args standing between two quote atoms q
Quoted(args, q) ==
    LET at == Positions(args, q)
        open == {k \in 1..Len(at) :
                    at[k] + 2 <= Len(args) /\ args[at[k] + 2] = q}
        nth(n) == CHOOSE k \in open : Cardinality({j \in open : j < k}) = n - 1
    IN  [n \in 1..Cardinality(open) |-> args[at[nth(n)] + 1]]

\* args is the count k followed by exactly k pairs 'label', `label`
IsStackOf(args, k) ==
    LET labels == Quoted(args, "'")
    IN  /\ Len(labels) = k
        /\ Quoted(args, Backquote) = labels
        /\ args = <<ToString(k), ", ">>
                  \o join(<<", ">>,
                          [i \in 1..k |->
                              <<"'", labels[i], "'", ", ",
                                Backquote, labels[i], Backquote>>])

\* the aliases of the per-rule match expressions of the inner statement
Aliases ==
    LET at == Positions(result.value, ")) AS ")
    IN  [i \in 1..Len(at) |-> result.value[at[i] + 1]]

\* C8: with a string column and a REGEX rule, the SQL has one stack(k, ...)
\* over the string columns and one over the REGEX rules, each of exactly k
\* pairs, and the rule stack names the rules in the order of the aliases of
\* the match expressions.
C8_StackCounts ==
    (calls = 1 /\ StringColumns # {} /\ RegexRules # {}) =>
        /\ result.status = "returned"
        /\ LET v == result.value
               at == Positions(v, "stack(")
               closer(p) == v[NextIn(v, p, StackClosers)]
           IN  /\ Len(at) = 2
               /\ closer(at[1]) = ") as (rule_name, value)"
               /\ closer(at[2]) = ") AS (column, value)"
               /\ IsStackOf(StackArgs(at[1]), Cardinality(RegexRules))
               /\ IsStackOf(StackArgs(at[2]), Cardinality(StringColumns))
               /\ Quoted(StackArgs(at[1]), "'") = Aliases
               /\ Aliases = [i \in 1..Len(OnlyRegex(rules)) |->
                                OnlyRegex(rules)[i].name[1]]

C8_Witness ==
    /\ calls = 1
    /\ Cardinality(StringColumns) = 2
    /\ Cardinality(RegexRules) = 1
    /\ Len(rules) = 2
    /\ \E i \in StringColumns : table_info.columns[i].data_type = UpperString
    /\ result.status = "returned"
    /\ Len(Positions(result.value, "stack(")) = 2

\* the name read by the innermost FROM of the returned SQL
FromName ==
    LET v == result.value
        p == CHOOSE i \in 1..(Len(v) - 1) : v[i] = "FROM " /\ v[i + 1] # "\n"
    IN  SubSeq(v, p + 1, NextIn(v, p, {"\n"}) - 1)

\* the literal selected as catalog by the returned SQL, between its quotes
CatalogLiteral ==
    LET v == result.value
        p == CHOOSE i \in 1..Len(v) : v[i] = " as catalog,"
        q == CHOOSE i \in 1..(p - 2) :
                 v[i] = "'" /\ \A j \in (i + 1)..(p - 2) : v[j] # "'"
    IN  SubSeq(v, q + 1, p - 2)

HasCatalog == table_info.catalog \notin {None, Some(<<>>)}

\* C10: without a catalog the FROM clause reads database.table and the
\* catalog literal is an empty or default marker; with a catalog the FROM
\* clause reads catalog.database.table and the literal is the catalog.
C10_CatalogSegment ==
    (calls = 1 /\ result.status = "returned") =>
        /\ Len(Positions(result.value, " as catalog,")) = 1
        /\ result.value[Positions(result.value, " as catalog,")[1] - 1] = "'"
        /\ IF HasCatalog
           THEN /\ FromName = table_info.catalog[1] \o <<".">>
                                \o table_info.database \o <<".">>
                                \o table_info.table
                /\ CatalogLiteral = table_info.catalog[1]
           ELSE /\ FromName = table_info.database \o <<".">> \o table_info.table
                /\ CatalogLiteral \in {<<>>, <<"None">>}

C10_Witness ==
    /\ calls = 1
    /\ result.status = "returned"
    /\ table_info.catalog = None
    /\ FromName = <<"db", ".", "t">>
    /\ CatalogLiteral = <<"None">>

-----------------------------------------------------------------------------
(* SqlBuilder.get_table_list_sql *)

columns_table_name == <<"system.information_schema.columns">>

wildcard_to_regex_kept(filter_str) == filter_str

\* filter.replace("*", ".*")
wildcard_to_regex(filter_str) == replace(filter_str, <<"*">>, <<".", "*">>)

catalog_sql(filter_str) ==
    <<"AND regexp_like(table_catalog, ", "\"", "^">>
    \o wildcard_to_regex(filter_str) \o <<"$", "\"", ")">>

database_sql(filter_str) ==
    <<"AND regexp_like(table_schema, ", "\"", "^">>
    \o wildcard_to_regex(filter_str) \o <<"$", "\"", ")">>

table_sql(filter_str) ==
    <<"AND regexp_like(table_name, ", "\"", "^">>
    \o wildcard_to_regex(filter_str) \o <<"$", "\"", ")">>

\* {predicate if filter != "*" else ""}
unless_wildcard(filter_str, predicate) ==
    IF filter_str # <<"*">> THEN predicate ELSE <<>>

\* the f-string of get_table_list_sql, line by line
table_list_sql(cf, df, tf) ==
    join(<<"\n">>, <<
        <<>>,
        Indent(2) \o <<"SELECT ">>,
        Indent(3) \o <<"table_catalog, ">>,
        Indent(3) \o <<"table_schema, ">>,
        Indent(3) \o <<"table_name, ">>,
        Indent(3) \o <<"collect_list(struct(column_name, data_type, partition_index)) as table_columns">>,
        Indent(2) \o <<"FROM ">> \o columns_table_name,
        Indent(2) \o <<"WHERE ">>,
        Indent(3) \o <<"table_schema != ", "\"", "information_schema", "\"", " ">>,
        Indent(3) \o unless_wildcard(cf, catalog_sql(cf)),
        Indent(3) \o unless_wildcard(df, database_sql(df)),
        Indent(3) \o unless_wildcard(tf, table_sql(tf)),
        Indent(2) \o <<"GROUP BY table_catalog, table_schema, table_name">>,
        Indent(2) >>)

get_table_list_sql(cf, df, tf) == Returned(strip_margin(table_list_sql(cf, df, tf)))

-----------------------------------------------------------------------------
(* Inputs of get_table_list_sql *)

FilterAtoms == {"*", "prod_", "."}

Filters == SeqsUpTo(FilterAtoms, MaxFilterLen)

-----------------------------------------------------------------------------
(* The metadata listing: one call of get_table_list_sql.                   *)

ListInit ==
    /\ msql = <<>>
    /\ table_info = [catalog |-> None, database |-> <<"db">>,
                     table |-> <<"t">>, columns |-> <<>>]
    /\ rules = <<>>
    /\ sample_size = 1000
    /\ catalog_filter \in Filters
    /\ database_filter \in Filters
    /\ table_filter \in Filters
    /\ calls = 0
    /\ tags = <<>>
    /\ sql_statements = <<>>
    /\ result = NoResult
    /\ previous = NoResult

list_tables ==
    /\ calls = 0
    /\ result' = get_table_list_sql(catalog_filter, database_filter, table_filter)
    /\ previous' = result
    /\ calls' = calls + 1
    /\ UNCHANGED <<msql, table_info, rules, sample_size, catalog_filter,
                   database_filter, table_filter, tags, sql_statements>>

ListNext == list_tables

ListSpec == ListInit /\ [][ListNext]_vars

-----------------------------------------------------------------------------
(* Properties of get_table_list_sql *)

\* the filter with each * written as .* and the rest copied
Starred(filter_str) ==
    Flatten([i \in 1..Len(filter_str) |->
                IF filter_str[i] = "*" THEN <<".", "*">> ELSE <<filter_str[i]>>])

\* the predicate on a metadata column is absent for the filter "*" and is
\* otherwise one regexp_like on that column with the anchored pattern
PredicateIs(column, filter_str) ==
    LET v == result.value
        head == "AND regexp_like(" \o column \o ", "
        at == Positions(v, head)
    IN  IF filter_str = <<"*">>
        THEN Len(at) = 0
        ELSE /\ Len(at) = 1
             /\ SubSeq(v, at[1] + 1, NextIn(v, at[1], {"\n"}) - 1)
                    = <<"\"", "^">> \o Starred(filter_str) \o <<"$", "\"", ")">>

\* C9: each of the three filters is omitted when it is "*" and is otherwise
\* an anchored regexp_like predicate with * written as .*; the
\* information_schema exclusion is always there.
C9_FilterPredicates ==
    calls = 1 =>
        /\ result.status = "returned"
        /\ PredicateIs("table_catalog", catalog_filter)
        /\ PredicateIs("table_schema", database_filter)
        /\ PredicateIs("table_name", table_filter)
        /\ \E i \in 1..(Len(result.value) - 3) :
              SubSeq(result.value, i, i + 3)
                  = <<"table_schema != ", "\"", "information_schema", "\"">>

C9_Witness ==
    /\ calls = 1
    /\ catalog_filter = <<"*">>
    /\ database_filter = <<"prod_", "*">>
    /\ table_filter = <<"*", "*">>
    /\ \E i \in 1..(Len(result.value) - 7) :
          SubSeq(result.value, i, i + 7)
              = <<"AND regexp_like(table_schema, ", "\"", "^", "prod_", ".",
                  "*", "$", "\"">>
    /\ Len(Positions(result.value, "AND regexp_like(table_catalog, ")) = 0

====
